---------------------------- MODULE Spec2Model ----------------------------
(***************************************************************************)
(* DGA detection notebook (dga-detection/training-tuning-inference/        *)
(* DGA_Detection.ipynb): the cell-by-cell pipeline                         *)
(*   read_csv -> init_model -> train_model -> save_checkpoint ->           *)
(*   load_checkpoint -> inference loop -> preprocess -> ONNX export        *)
(* and the notebook's own preprocess function.                             *)
(*                                                                         *)
(* The notebook imports DGADetector, DataLoader, DGADataset and str2ascii  *)
(* from modules whose code is not part of the sources at hand; those are   *)
(* modelled from the design document and are marked as such where they are *)
(* defined.                                                                *)
(***************************************************************************)
EXTENDS Integers, Sequences, FiniteSets, TLC

(***************************************************************************)
(* Bounds of the model.                                                    *)
(***************************************************************************)
MaxLen == 3
MaxW == 3
MaxRows == 2
NumRecords == 4
MaxEpochs == 2
MaxBatchSize == 2
ParamSpace == 3
MaxTestRows == 3

(***************************************************************************)
(* Program constants of the notebook.                                      *)
(***************************************************************************)
SAMPLE_ROWS == 32
EXPORT_PAD_MAX_LEN == 100
TRUNCATE == 100
N_LAYERS == 3
CHAR_VOCAB == 128
HIDDEN_SIZE == 100
N_DOMAIN_TYPE == 2
\* train_size = 0.7 as the fraction TRAIN_SIZE_NUM / TRAIN_SIZE_DEN
TRAIN_SIZE_NUM == 7
TRAIN_SIZE_DEN == 10

VARIABLES
  cuda_available,      \* torch.cuda.is_available(): an accelerator is present
  input_csv,           \* rows of the CSV file at INPUT_CSV
  gdf,                 \* the dataframe read from it
  batch_size, epochs,  \* arguments of train_model (BATCH_SIZE, EPOCHS)
  pc,                  \* the notebook statement that runs next
  abort_cause,         \* the exception that ended the run, "none" while it runs
  dd,                  \* the detector that is trained
  train_ids, test_ids, \* train_model's split: row numbers of gdf, in order
  epoch, batch_i,      \* current epoch, next training mini-batch of it
  total_loss,          \* loss accumulated over the epoch's mini-batches
  epoch_log,           \* what each epoch reported: loss, correct, total
  events,              \* history: the statements, mini-batches and passes run
  trained_on,          \* history: the rows the mini-batches trained on
  evaluated_on,        \* history: the rows the evaluation passes scored
  models_dir,          \* os.path.exists(MODELS_DIR)
  fs,                  \* files under MODELS_DIR
  model_filepath,      \* path the save cell computed
  dga_detector,        \* the detector of the inference cell
  test_df,             \* the inference cell's test rows (row numbers of gdf)
  chunk_i,             \* next chunk of the inference loop
  pred_results, true_results,
  accuracy_score_result,
  pad_max_len,         \* preprocess's width argument
  sample_model_input,  \* what preprocess returned
  model_to_export,
  onnx                 \* the exported file

data_vars  == <<cuda_available, input_csv, gdf, batch_size, epochs>>
train_vars == <<train_ids, test_ids, epoch, batch_i, total_loss, epoch_log>>
file_vars  == <<models_dir, fs, model_filepath>>
infer_vars == <<test_df, chunk_i, pred_results, true_results, accuracy_score_result>>
export_vars == <<pad_max_len, sample_model_input, model_to_export, onnx>>
vars == <<data_vars, pc, abort_cause, dd, train_vars, events, trained_on, evaluated_on,
          file_vars,
          dga_detector, infer_vars, export_vars>>

(***************************************************************************)
(* Generic helpers.                                                        *)
(***************************************************************************)
Min(a, b) == IF a <= b THEN a ELSE b

Max(a, b) == IF a >= b THEN a ELSE b

RECURSIVE SeqMax(_)
SeqMax(s) == IF s = <<>> THEN 0 ELSE Max(Head(s), SeqMax(Tail(s)))

\* Python slice s[0:n].
Slice0(s, n) == SubSeq(s, 1, Min(Len(s), n))

(***************************************************************************)
(* Characters and their code points.  A domain string is a sequence of     *)
(* one-character strings; code_points maps a character to its ASCII code.  *)
(***************************************************************************)
Alphabet == {"a", "z"}

Ord(c) == CASE c = "a" -> 97
            [] c = "z" -> 122

StringsUpTo(n) == UNION {[1..k -> Alphabet] : k \in 0..n}

NoTensor == [status |-> "unset"]

(***************************************************************************)
(* utils.str2ascii(df, col_name): per row the character count ("len"), one *)
(* integer column per character position holding the ASCII code (0 where   *)
(* the row's string is shorter than the longest of the frame), and the     *)
(* input column itself.  It takes no width argument.                       *)
(***************************************************************************)
str2ascii(df) ==
  LET lens == [i \in 1..Len(df) |-> Len(df[i].domain)]
      w    == SeqMax(lens)
  IN  [ domain |-> [i \in 1..Len(df) |-> df[i].domain],
        len    |-> lens,
        codes  |-> [i \in 1..Len(df) |->
                      [j \in 1..w |-> IF j <= lens[i] THEN Ord(df[i].domain[j]) ELSE 0]],
        width  |-> w ]

(***************************************************************************)
(* input = cp.zeros((rows, pad_max_len)); input[:rows, :cols] = seq_cp     *)
(* The slice on the left is clipped to pad_max_len columns, so the         *)
(* assignment is a shape mismatch when seq_cp has more columns.            *)
(***************************************************************************)
PadMutantNoZeros(seq_cp, cols, pad) ==
  IF cols > pad
    THEN [status |-> "ValueError"]
    ELSE [status |-> "ok",
          rows   |-> [i \in 1..Len(seq_cp) |->
                        [j \in 1..pad |-> IF j <= cols THEN seq_cp[i][j] ELSE 1]]]

PadInto(seq_cp, cols, pad) ==
  IF cols > pad
    THEN [status |-> "ValueError"]
    ELSE [status |-> "ok",
          rows   |-> [i \in 1..Len(seq_cp) |->
                        [j \in 1..pad |-> IF j <= cols THEN seq_cp[i][j] ELSE 0]]]

(***************************************************************************)
(* preprocess(df, pad_max_len) of the export cell.  cuDF frames and CuPy   *)
(* arrays live in accelerator memory: without a device the cuDF/CuPy calls *)
(* raise before the torch.cuda.is_available() test is reached.             *)
(***************************************************************************)
preprocess(df, pad, cuda) ==
  IF ~cuda
    THEN [status |-> "NoDevice"]
    ELSE LET enc    == str2ascii(Slice0(df, SAMPLE_ROWS))
             padded == PadInto(enc.codes, enc.width, pad)
         IN  IF padded.status # "ok"
               THEN [status |-> padded.status]
               ELSE [status         |-> "ok",
                     seq_tensor     |-> padded.rows,
                     seq_len_tensor |-> enc.len,
                     device         |-> IF cuda THEN "cuda" ELSE "cpu"]

(***************************************************************************)
(* The dataset.  Row i of the CSV holds a domain and a label in {0,1};     *)
(* two rows may hold the same domain.                                      *)
(***************************************************************************)
DomainCycle == << <<"a">>, <<"z", "a">>, <<"a">>, <<"a", "z", "z">>, <<"z">> >>

DomainOf(i) == DomainCycle[((i - 1) % Len(DomainCycle)) + 1]

Datasets ==
  {[i \in 1..n |-> [domain |-> DomainOf(i), type |-> (i + k) % 2]] :
     n \in {NumRecords}, k \in 0..1}

(***************************************************************************)
(* sklearn.model_selection.train_test_split(data, train_size=f): a random  *)
(* permutation of the rows, the first floor(f * n) of them the train part  *)
(* and the rest the test part.                                             *)
(***************************************************************************)
Perms(n) == {p \in [1..n -> 1..n] : \A i, j \in 1..n : p[i] = p[j] => i = j}

NTrain(n) == (TRAIN_SIZE_NUM * n) \div TRAIN_SIZE_DEN

train_test_split(n, perm) ==
  [train |-> SubSeq(perm, 1, NTrain(n)),
   test  |-> SubSeq(perm, NTrain(n) + 1, n)]

Range(s) == {s[i] : i \in 1..Len(s)}

(***************************************************************************)
(* train_model's own split: a part of the rows of the given fraction, not  *)
(* fixed by any seed, becomes the train set and the other rows the test    *)
(* set; each is walked in the order the dataset presents its rows.         *)
(***************************************************************************)
RECURSIVE InOrder(_)
InOrder(S) ==
  IF S = {} THEN <<>>
  ELSE LET m == CHOOSE x \in S : \A y \in S : x <= y
       IN  <<m>> \o InOrder(S \ {m})

TrainParts(n) == {S \in SUBSET (1..n) : Cardinality(S) = NTrain(n)}

split_dataset(n, part) ==
  [train |-> InOrder(part), test |-> InOrder((1..n) \ part)]

(***************************************************************************)
(* DataLoader.get_chunks(): contiguous chunks of batchsize rows, the last  *)
(* one shorter when the row count is no multiple of it.                    *)
(***************************************************************************)
NumChunks(n, bs) == (n + bs - 1) \div bs

get_chunk_overlapping(rows, bs, k) ==
  SubSeq(rows, Max(1, (k - 1) * bs), Min(k * bs, Len(rows)))

get_chunk(rows, bs, k) == SubSeq(rows, (k - 1) * bs + 1, Min(k * bs, Len(rows)))

(***************************************************************************)
(* The encoder of the training and inference path (DGADataset and the      *)
(* detector's tensor construction): codes truncated to the width, zero     *)
(* padded to it, and the character count capped at it.                     *)
(***************************************************************************)
Encode(domain, w) ==
  [len |-> Min(Len(domain), w),
   seq |-> [j \in 1..w |-> IF j <= Len(domain) THEN Ord(domain[j]) ELSE 0]]

RECURSIVE SumFirst(_, _)
SumFirst(seq, n) == IF n = 0 THEN 0 ELSE seq[n] + SumFirst(seq, n - 1)

(***************************************************************************)
(* The sequence classifier, abstracted: its parameters are one value of    *)
(* 0..ParamSpace-1, and the class of an encoded domain is a fixed function *)
(* of the parameters and of the codes within the true length.              *)
(***************************************************************************)
NoModel == [kind |-> "none"]

Hyper(n_layers, char_vocab, hidden_size, n_domain_type) ==
  [n_layers |-> n_layers, char_vocab |-> char_vocab,
   hidden_size |-> hidden_size, n_domain_type |-> n_domain_type]

Forward(model, enc) ==
  (model.params + SumFirst(enc.seq, enc.len)) % model.hyper.n_domain_type

Classify(model, domain) == Forward(model, Encode(domain, TRUNCATE))

RECURSIVE CountWrong(_, _, _)
CountWrong(model, frame, ids) ==
  IF ids = <<>> THEN 0
  ELSE (IF Classify(model, frame[Head(ids)].domain) = frame[Head(ids)].type
          THEN 0 ELSE 1)
       + CountWrong(model, frame, Tail(ids))

(***************************************************************************)
(* DGADetector.  A detector holds no model until init_model or             *)
(* load_checkpoint gives it one; the model sits on the accelerator when    *)
(* there is one and on the CPU otherwise.                                  *)
(***************************************************************************)
DGADetector == [model |-> NoModel]

Device(cuda) == IF cuda THEN "cuda" ELSE "cpu"

init_model(det, hyper, params0, cuda) ==
  [det EXCEPT !.model = [kind |-> "rnn", hyper |-> hyper, params |-> params0,
                         device |-> Device(cuda)]]

(***************************************************************************)
(* One training mini-batch: encode, forward pass, loss, backward pass,     *)
(* update.  The loss of a mini-batch is the count of its rows the model    *)
(* gets wrong, and the update moves the parameters by it.                  *)
(***************************************************************************)
train_step(model, frame, ids) ==
  LET loss == CountWrong(model, frame, ids)
  IN  [loss  |-> loss,
       model |-> [model EXCEPT !.params = (model.params + loss) % ParamSpace]]

(***************************************************************************)
(* evaluate_model: a forward pass over every chunk of the held-out rows,   *)
(* counting the rows whose predicted class is the label.                   *)
(***************************************************************************)
RECURSIVE CorrectFrom(_, _, _, _, _)
CorrectFrom(model, frame, ids, bs, k) ==
  IF k > NumChunks(Len(ids), bs) THEN 0
  ELSE LET chunk == get_chunk(ids, bs, k)
       IN  (Len(chunk) - CountWrong(model, frame, chunk))
           + CorrectFrom(model, frame, ids, bs, k + 1)

evaluate_model(model, frame, ids, bs) ==
  [correct |-> CorrectFrom(model, frame, ids, bs, 1), total |-> Len(ids)]

(***************************************************************************)
(* predict(domains): the class of every domain, in input order; the model  *)
(* is left as it was.                                                      *)
(***************************************************************************)
predict_stateful(model, domains) ==
  [out   |-> [i \in 1..Len(domains) |-> Classify(model, domains[i])],
   model |-> [model EXCEPT !.params = (model.params + 1) % ParamSpace]]

predict(model, domains) ==
  [out   |-> [i \in 1..Len(domains) |-> Classify(model, domains[i])],
   model |-> model]

(***************************************************************************)
(* Checkpoint files.  save_checkpoint writes the hyperparameters and the   *)
(* parameters; load_checkpoint rebuilds a model of the stored shape and    *)
(* fills in its parameters, and fails on a missing or corrupt file and on  *)
(* hyperparameters that do not fit the vocabulary and class count.         *)
(***************************************************************************)
Absent == [kind |-> "absent"]

Corrupt == [kind |-> "corrupt"]

Checkpoint(hyper, params) == [kind |-> "ckpt", hyper |-> hyper, params |-> params]

save_checkpoint(model) == Checkpoint(model.hyper, model.params)

load_checkpoint(file, cuda) ==
  CASE file.kind = "absent"  -> [status |-> "FileNotFoundError"]
    [] file.kind = "corrupt" -> [status |-> "DeserializationError"]
    [] OTHER ->
         IF \/ file.hyper.char_vocab # CHAR_VOCAB
            \/ file.hyper.n_domain_type # N_DOMAIN_TYPE
           THEN [status |-> "HyperparameterMismatch"]
           ELSE [status |-> "ok",
                 model  |-> [kind |-> "rnn", hyper |-> file.hyper,
                             params |-> file.params, device |-> Device(cuda)]]

get_unwrapped_model(det) == det.model

(***************************************************************************)
(* The save cell's file name: rnn_classifier_<now>.bin under MODELS_DIR.   *)
(* "t1" is the time of an earlier run, whose checkpoint may still lie in   *)
(* the directory; the clock has moved on since.                            *)
(***************************************************************************)
Times == {"t1", "t2"}

EarlierRun == "t1"

ModelFilename(now) == CASE now = "t1" -> "models/rnn_classifier_t1.bin"
                        [] now = "t2" -> "models/rnn_classifier_t2.bin"

Paths == {ModelFilename(t) : t \in Times}

StaleCheckpoint ==
  Checkpoint(Hyper(N_LAYERS, CHAR_VOCAB, HIDDEN_SIZE, N_DOMAIN_TYPE), 0)

ForeignCheckpoint ==
  Checkpoint(Hyper(N_LAYERS, CHAR_VOCAB \div 2, HIDDEN_SIZE, N_DOMAIN_TYPE + 1), 0)

Ev(kind, a, b) == [kind |-> kind, a |-> a, b |-> b]

(***************************************************************************)
(* The notebook, cell by cell.  An exception ends the run: no cell catches *)
(* one, and the cells after it do not run.                                 *)
(***************************************************************************)
Init ==
  /\ cuda_available \in BOOLEAN
  /\ input_csv \in Datasets
  /\ gdf = <<>>
  /\ batch_size \in 1..MaxBatchSize
  /\ epochs \in 1..MaxEpochs
  /\ pc = "read_csv"
  /\ abort_cause = "none"
  /\ dd = DGADetector
  /\ train_ids = <<>> /\ test_ids = <<>>
  /\ epoch = 0 /\ batch_i = 0 /\ total_loss = 0
  /\ epoch_log = <<>>
  /\ events = <<>>
  /\ trained_on = {} /\ evaluated_on = {}
  /\ models_dir \in BOOLEAN
  /\ fs = [p \in Paths |-> IF models_dir /\ p = ModelFilename(EarlierRun)
                             THEN StaleCheckpoint ELSE Absent]
  /\ model_filepath = "unset"
  /\ dga_detector = DGADetector
  /\ test_df = <<>> /\ chunk_i = 0
  /\ pred_results = <<>> /\ true_results = <<>>
  /\ accuracy_score_result = [correct |-> 0, total |-> 0]
  /\ pad_max_len = EXPORT_PAD_MAX_LEN
  /\ sample_model_input = NoTensor
  /\ model_to_export = NoModel
  /\ onnx = Absent

Raise(cause) == pc' = "aborted" /\ abort_cause' = cause

Log(kind, a, b) == events' = Append(events, Ev(kind, a, b))

\* gdf = cudf.read_csv(INPUT_CSV): a cuDF frame needs the accelerator.
ReadCsv ==
  /\ pc = "read_csv"
  /\ Log("read_csv", 0, 0)
  /\ IF cuda_available
       THEN /\ gdf' = input_csv
            /\ pc' = "init_model"
            /\ UNCHANGED abort_cause
       ELSE /\ Raise("NoDevice")
            /\ UNCHANGED gdf
  /\ UNCHANGED <<trained_on, evaluated_on, cuda_available, input_csv, batch_size, epochs, dd, train_vars,
                 file_vars, dga_detector, infer_vars, export_vars>>

\* dd = DGADetector(lr=LR); dd.init_model(n_layers=..., ...): fresh weights.
InitModel ==
  /\ pc = "init_model"
  /\ \E params0 \in 0..(ParamSpace - 1) :
       dd' = init_model(DGADetector,
                        Hyper(N_LAYERS, CHAR_VOCAB, HIDDEN_SIZE, N_DOMAIN_TYPE),
                        params0, cuda_available)
  /\ pc' = "train_model"
  /\ Log("init_model", 0, 0)
  /\ UNCHANGED <<trained_on, evaluated_on, data_vars, abort_cause, train_vars, file_vars, dga_detector,
                 infer_vars, export_vars>>

\* dd.train_model(train_data, labels, batch_size, epochs, train_size=0.7):
\* the split, made once, before the first epoch.
TrainModel ==
  /\ pc = "train_model"
  /\ \E part \in TrainParts(Len(gdf)) :
       LET split == split_dataset(Len(gdf), part)
       IN  /\ train_ids' = split.train
           /\ test_ids' = split.test
  /\ trained_on' = {} /\ evaluated_on' = {}
  /\ epoch' = 1 /\ batch_i' = 1 /\ total_loss' = 0
  /\ pc' = "train_batch"
  /\ Log("train_model", 0, 0)
  /\ UNCHANGED <<data_vars, abort_cause, dd, epoch_log, file_vars, dga_detector,
                 infer_vars, export_vars>>

NumTrainBatches == NumChunks(Len(train_ids), batch_size)

\* One mini-batch of the current epoch, to its end.
TrainBatch ==
  /\ pc = "train_batch"
  /\ LET step == train_step(dd.model, gdf, get_chunk(train_ids, batch_size, batch_i))
     IN  /\ dd' = [dd EXCEPT !.model = step.model]
         /\ total_loss' = total_loss + step.loss
  /\ batch_i' = batch_i + 1
  /\ pc' = IF batch_i = NumTrainBatches THEN "train_eval" ELSE "train_batch"
  /\ trained_on' = trained_on \cup Range(get_chunk(train_ids, batch_size, batch_i))
  /\ Log("batch", epoch, batch_i)
  /\ UNCHANGED <<evaluated_on, data_vars, abort_cause, train_ids, test_ids, epoch, epoch_log,
                 file_vars, dga_detector, infer_vars, export_vars>>

\* What train_model does with a mini-batch that raises: nothing, the
\* exception leaves train_model and the cell.
BatchRaised(i) == [pc |-> "aborted", abort_cause |-> "BatchError", batch_i |-> i]

TrainBatchFails ==
  /\ pc = "train_batch"
  /\ LET r == BatchRaised(batch_i)
     IN  pc' = r.pc /\ abort_cause' = r.abort_cause /\ batch_i' = r.batch_i
  /\ Log("batch_fail", epoch, batch_i)
  /\ UNCHANGED <<trained_on, evaluated_on, data_vars, dd, train_ids, test_ids, epoch, total_loss, epoch_log,
                 file_vars, dga_detector, infer_vars, export_vars>>

\* for _ in range(epochs): whether another epoch follows epoch e.
MoreEpochsOffByOne(e, n) == e <= n

MoreEpochs(e, n) == e < n

\* The split the next epoch works on: the one made before the first epoch.
epoch_split_swapped(train, test) == [train |-> test, test |-> train]

epoch_split(train, test) == [train |-> train, test |-> test]

\* The evaluation pass that ends an epoch, and the epoch's report.
EvaluateModel ==
  /\ pc = "train_eval"
  /\ LET acc == evaluate_model(dd.model, gdf, test_ids, batch_size)
     IN  epoch_log' = Append(epoch_log, [loss |-> total_loss,
                                         correct |-> acc.correct,
                                         total |-> acc.total])
  /\ Log("eval", epoch, 0)
  /\ IF MoreEpochs(epoch, epochs)
       THEN /\ epoch' = epoch + 1 /\ batch_i' = 1 /\ total_loss' = 0
            /\ pc' = "train_batch"
            /\ train_ids' = epoch_split(train_ids, test_ids).train
            /\ test_ids' = epoch_split(train_ids, test_ids).test
       ELSE \* train_model returns: its split and counters are gone
            /\ train_ids' = <<>> /\ test_ids' = <<>>
            /\ epoch' = 0 /\ batch_i' = 0 /\ total_loss' = 0
            /\ pc' = "save"
  /\ evaluated_on' = evaluated_on \cup Range(test_ids)
  /\ UNCHANGED <<trained_on, data_vars, abort_cause, dd, file_vars,
                 dga_detector, infer_vars, export_vars>>

\* os.makedirs(MODELS_DIR) if absent; the file name from datetime.now();
\* dd.save_checkpoint(model_filepath).
SaveCheckpoint ==
  /\ pc = "save"
  /\ \E now \in Times \ {EarlierRun} :
       /\ model_filepath' = ModelFilename(now)
       /\ fs' = [fs EXCEPT ![ModelFilename(now)] = save_checkpoint(dd.model)]
  /\ models_dir' = TRUE
  /\ pc' = "load"
  /\ Log("save_checkpoint", 0, 0)
  /\ UNCHANGED <<trained_on, evaluated_on, data_vars, abort_cause, dd, train_vars, dga_detector,
                 infer_vars, export_vars>>

\* Between the two cells the file is out of the notebook's hands: it may be
\* removed, damaged, or replaced by a checkpoint of another configuration.
FileDamaged ==
  /\ pc = "load"
  /\ fs[model_filepath] = save_checkpoint(dd.model)
  /\ \E f \in {Absent, Corrupt, ForeignCheckpoint} :
       fs' = [fs EXCEPT ![model_filepath] = f]
  /\ UNCHANGED <<trained_on, evaluated_on, data_vars, pc, abort_cause, dd, train_vars, events, models_dir,
                 model_filepath, dga_detector, infer_vars, export_vars>>

\* dga_detector = DGADetector(); dga_detector.load_checkpoint(model_filepath)
LoadPathStale == ModelFilename(EarlierRun)

LoadPath == model_filepath

\* Nothing catches what load_checkpoint raises: the cell ends there.
LoadRaisedSwallowed(status) == [pc |-> "split", abort_cause |-> "none"]

LoadRaised(status) == [pc |-> "aborted", abort_cause |-> status]

LoadCheckpoint ==
  /\ pc = "load"
  /\ Log("load_checkpoint", 0, 0)
  /\ LET r == load_checkpoint(fs[LoadPath], cuda_available)
     IN  IF r.status = "ok"
           THEN /\ dga_detector' = [DGADetector EXCEPT !.model = r.model]
                /\ pc' = "split"
                /\ UNCHANGED abort_cause
           ELSE /\ pc' = LoadRaised(r.status).pc
                /\ abort_cause' = LoadRaised(r.status).abort_cause
                /\ UNCHANGED dga_detector
  /\ UNCHANGED <<trained_on, evaluated_on, data_vars, dd, train_vars, file_vars, infer_vars, export_vars>>

\* train, test = train_test_split(gdf, train_size=0.7); test_df holds the
\* test rows, renumbered; the dataset and the loader over it.
InferenceSplit ==
  /\ pc = "split"
  /\ \E test \in {train_test_split(Len(gdf), perm).test : perm \in Perms(Len(gdf))} :
       test_df' = test
  /\ chunk_i' = 1
  /\ pred_results' = <<>> /\ true_results' = <<>>
  /\ pc' = "infer"
  /\ Log("split", 0, 0)
  /\ UNCHANGED <<trained_on, evaluated_on, data_vars, abort_cause, dd, train_vars, file_vars, dga_detector,
                 accuracy_score_result, export_vars>>

NumTestChunks == NumChunks(Len(test_df), batch_size)

ChunkDomains(k) ==
  LET chunk == get_chunk(test_df, batch_size, k)
  IN  [i \in 1..Len(chunk) |-> gdf[chunk[i]].domain]

ChunkTypesOfFirstChunk(k) ==
  LET chunk == get_chunk(test_df, batch_size, 1)
  IN  [i \in 1..Len(chunk) |-> gdf[chunk[i]].type]

ChunkTypes(k) ==
  LET chunk == get_chunk(test_df, batch_size, k)
  IN  [i \in 1..Len(chunk) |-> gdf[chunk[i]].type]

\* for chunk in test_dataloader.get_chunks(): one pass of the loop body.
PredictChunk ==
  /\ pc = "infer"
  /\ chunk_i <= NumTestChunks
  /\ LET r == predict(dga_detector.model, ChunkDomains(chunk_i))
     IN  /\ pred_results' = Append(pred_results, r.out)
         /\ dga_detector' = [dga_detector EXCEPT !.model = r.model]
  /\ true_results' = Append(true_results, ChunkTypes(chunk_i))
  /\ chunk_i' = chunk_i + 1
  /\ Log("predict", chunk_i, 0)
  /\ UNCHANGED <<trained_on, evaluated_on, data_vars, pc, abort_cause, dd, train_vars, file_vars, test_df,
                 accuracy_score_result, export_vars>>

\* The loop body has no try/except: a predict that raises ends the cell.
PredictRaisedSkip(i) == [pc |-> "infer", abort_cause |-> "none", chunk_i |-> i + 1]

PredictRaised(i) == [pc |-> "aborted", abort_cause |-> "BatchError", chunk_i |-> i]

PredictChunkFails ==
  /\ pc = "infer"
  /\ chunk_i <= NumTestChunks
  /\ LET r == PredictRaised(chunk_i)
     IN  pc' = r.pc /\ abort_cause' = r.abort_cause /\ chunk_i' = r.chunk_i
  /\ Log("predict_fail", chunk_i, 0)
  /\ UNCHANGED <<trained_on, evaluated_on, data_vars, dd, train_vars, file_vars, dga_detector, test_df,
                 pred_results, true_results, accuracy_score_result, export_vars>>

RECURSIVE Concatenate(_)
Concatenate(lists) ==
  IF lists = <<>> THEN <<>> ELSE Head(lists) \o Concatenate(Tail(lists))

accuracy_score(y1, y2) ==
  [correct |-> Cardinality({i \in 1..Len(y1) : y1[i] = y2[i]}), total |-> Len(y1)]

\* np.concatenate of both lists, then accuracy_score; np.concatenate raises
\* on an empty list.
Score ==
  /\ pc = "infer"
  /\ chunk_i > NumTestChunks
  /\ Log("score", 0, 0)
  /\ IF pred_results = <<>>
       THEN /\ Raise("ValueError")
            /\ UNCHANGED <<pred_results, true_results, accuracy_score_result>>
       ELSE /\ pred_results' = Concatenate(pred_results)
            /\ true_results' = Concatenate(true_results)
            /\ accuracy_score_result' =
                 accuracy_score(Concatenate(pred_results), Concatenate(true_results))
            /\ pc' = "sample"
            /\ UNCHANGED abort_cause
  /\ UNCHANGED <<trained_on, evaluated_on, data_vars, dd, train_vars, file_vars, dga_detector, test_df,
                 chunk_i, export_vars>>

\* input, seq_lengths = preprocess(gdf[0:32], 100)
\* model_to_export = dga_detector.get_unwrapped_model()
SampleInput ==
  /\ pc = "sample"
  /\ Log("preprocess", 0, 0)
  /\ LET r == preprocess(Slice0(gdf, SAMPLE_ROWS), pad_max_len, cuda_available)
     IN  IF r.status = "ok"
           THEN /\ sample_model_input' = r
                /\ model_to_export' = get_unwrapped_model(dga_detector)
                /\ pc' = "export"
                /\ UNCHANGED abort_cause
           ELSE /\ Raise(r.status)
                /\ UNCHANGED <<sample_model_input, model_to_export>>
  /\ UNCHANGED <<trained_on, evaluated_on, data_vars, dd, train_vars, file_vars, dga_detector, infer_vars,
                 pad_max_len, onnx>>

\* torch.onnx.export(model_to_export, sample_model_input, "model.onnx",
\* export_params=True, ...): the traced graph with the weights in it; the
\* sequence lengths of the sample are frozen into the trace.
ExportedDetectorReset(det) == [det EXCEPT !.model.params = 0]

ExportedDetector(det) == det

OnnxExport ==
  /\ pc = "export"
  /\ onnx' = [kind          |-> "onnx",
              params        |-> model_to_export.params,
              hyper         |-> model_to_export.hyper,
              traced_lens   |-> sample_model_input.seq_len_tensor,
              input_names   |-> <<"domains", "seq_lengths">>,
              output_names  |-> <<"output">>,
              dynamic_axes  |-> {"domains", "seq_lengths", "output"}]
  /\ dga_detector' = ExportedDetector(dga_detector)
  /\ pc' = "done"
  /\ Log("export", 0, 0)
  /\ UNCHANGED <<trained_on, evaluated_on, data_vars, abort_cause, dd, train_vars, file_vars, infer_vars,
                 pad_max_len, sample_model_input, model_to_export>>

Next ==
  \/ ReadCsv
  \/ InitModel
  \/ TrainModel
  \/ TrainBatch
  \/ TrainBatchFails
  \/ EvaluateModel
  \/ SaveCheckpoint
  \/ FileDamaged
  \/ LoadCheckpoint
  \/ InferenceSplit
  \/ PredictChunk
  \/ PredictChunkFails
  \/ Score
  \/ SampleInput
  \/ OnnxExport

Spec == Init /\ [][Next]_vars

(***************************************************************************)
(* The encoder on its own: preprocess applied to any frame of at most      *)
(* MaxRows domains of at most MaxLen characters, with any width 1..MaxW,   *)
(* accelerator present or not.                                             *)
(***************************************************************************)
EncFrames ==
  UNION {[1..n -> [domain : StringsUpTo(MaxLen), type : {0}]] : n \in 0..MaxRows}

EncInit ==
  /\ cuda_available \in BOOLEAN
  /\ gdf \in EncFrames
  /\ pad_max_len \in 1..MaxW
  /\ sample_model_input = NoTensor
  /\ input_csv = <<>>
  /\ batch_size = 1 /\ epochs = 1
  /\ pc = "sample"
  /\ abort_cause = "none"
  /\ dd = DGADetector
  /\ train_ids = <<>> /\ test_ids = <<>>
  /\ epoch = 0 /\ batch_i = 0 /\ total_loss = 0
  /\ epoch_log = <<>>
  /\ events = <<>>
  /\ trained_on = {} /\ evaluated_on = {}
  /\ models_dir = FALSE
  /\ fs = [p \in Paths |-> Absent]
  /\ model_filepath = "unset"
  /\ dga_detector = DGADetector
  /\ test_df = <<>> /\ chunk_i = 0
  /\ pred_results = <<>> /\ true_results = <<>>
  /\ accuracy_score_result = [correct |-> 0, total |-> 0]
  /\ model_to_export = NoModel
  /\ onnx = Absent

EncNext == SampleInput

EncSpec == EncInit /\ [][EncNext]_vars

(***************************************************************************)
(* The inference loop on its own: a loaded detector with any parameters,   *)
(* and a test frame of at most MaxTestRows rows, each any domain of the    *)
(* dataset with any label, cut into chunks of any batch size.              *)
(***************************************************************************)
InferFrames ==
  UNION {[1..n -> [domain : {DomainOf(1), DomainOf(2)}, type : 0..1]] :
           n \in 1..MaxTestRows}

InferInit ==
  /\ cuda_available = TRUE
  /\ gdf \in InferFrames
  /\ test_df = [i \in 1..Len(gdf) |-> i]
  /\ batch_size \in 1..MaxBatchSize
  /\ \E params \in 0..(ParamSpace - 1) :
       dga_detector =
         [DGADetector EXCEPT !.model =
            load_checkpoint(
              Checkpoint(Hyper(N_LAYERS, CHAR_VOCAB, HIDDEN_SIZE, N_DOMAIN_TYPE),
                         params), TRUE).model]
  /\ pc = "infer"
  /\ chunk_i = 1
  /\ pred_results = <<>> /\ true_results = <<>>
  /\ accuracy_score_result = [correct |-> 0, total |-> 0]
  /\ input_csv = <<>>
  /\ epochs = 1
  /\ abort_cause = "none"
  /\ dd = DGADetector
  /\ train_ids = <<>> /\ test_ids = <<>>
  /\ epoch = 0 /\ batch_i = 0 /\ total_loss = 0
  /\ epoch_log = <<>>
  /\ events = <<>>
  /\ trained_on = {} /\ evaluated_on = {}
  /\ models_dir = FALSE
  /\ fs = [p \in Paths |-> Absent]
  /\ model_filepath = "unset"
  /\ pad_max_len = EXPORT_PAD_MAX_LEN
  /\ sample_model_input = NoTensor
  /\ model_to_export = NoModel
  /\ onnx = Absent

InferNext == PredictChunk \/ PredictChunkFails \/ Score

InferSpec == InferInit /\ [][InferNext]_vars

(***************************************************************************)
(* Properties.                                                             *)
(***************************************************************************)
HasEvent(kind) == \E k \in 1..Len(events) : events[k].kind = kind

LastEvent == events[Len(events)]

\* preprocess was called / it returned (it did not raise).
Preprocessed == HasEvent("preprocess")

Returned == sample_model_input # NoTensor

\* C1: for every domain string s and width W the encoder records the length
\* min(len(s), W) and the first min(len(s), W) entries of the row are the
\* ASCII codes of s in order; a string longer than W is cut to W codes, with
\* no error and no wider row.  (Stated for preprocess on an accelerator.)
C1_EncodeTruncatesToWidth ==
  (Preprocessed /\ cuda_available) =>
    /\ Returned
    /\ Len(sample_model_input.seq_tensor) = Len(gdf)
    /\ \A i \in 1..Len(gdf) :
         LET s == gdf[i].domain
             n == Min(Len(s), pad_max_len)
         IN  /\ sample_model_input.seq_len_tensor[i] = n
             /\ Len(sample_model_input.seq_tensor[i]) = pad_max_len
             /\ \A j \in 1..n : sample_model_input.seq_tensor[i][j] = Ord(s[j])

\* C2: every row preprocess returns has exactly W entries, and every entry
\* at a (0-based) index >= the recorded length of the row is 0; the empty
\* string gets the recorded length 0 and a row of W zeros.
C2_RowsZeroPaddedToWidth ==
  (Returned /\ sample_model_input.status = "ok") =>
    /\ Len(sample_model_input.seq_tensor) = Len(sample_model_input.seq_len_tensor)
    /\ \A i \in 1..Len(sample_model_input.seq_tensor) :
         LET row == sample_model_input.seq_tensor[i]
             n   == sample_model_input.seq_len_tensor[i]
         IN  /\ Len(row) = pad_max_len
             /\ \A j \in 1..pad_max_len : j > n => row[j] = 0
             /\ gdf[i].domain = <<>> =>
                  (n = 0 /\ \A j \in 1..pad_max_len : row[j] = 0)

\* C2's case: preprocess returned rows wider than the longest string of the
\* frame, one of them for the empty string and one for a non-empty string.
C2_Witness ==
  /\ Returned /\ sample_model_input.status = "ok"
  /\ \E i, k \in 1..Len(gdf) :
       /\ gdf[i].domain = <<>>
       /\ Len(gdf[k].domain) > 0
       /\ Len(gdf[k].domain) < pad_max_len
       /\ sample_model_input.seq_tensor[k][1] = Ord(gdf[k].domain[1])

\* C7: with the accelerator unavailable preprocess still completes, and it
\* returns the tensors and lengths it returns with the accelerator.
C7_SameWithoutAccelerator ==
  Preprocessed =>
    LET ref == preprocess(gdf, pad_max_len, TRUE)
    IN  ref.status = "ok" =>
          /\ Returned
          /\ sample_model_input.seq_tensor = ref.seq_tensor
          /\ sample_model_input.seq_len_tensor = ref.seq_len_tensor

\* C3: once a fresh detector has loaded the checkpoint that dd saved, it
\* holds dd's hyperparameters and parameters, and predict gives the same
\* classes from both detectors on every domain of the dataset.
C3_CheckpointRoundTrip ==
  dga_detector.model # NoModel =>
    /\ dga_detector.model.hyper = dd.model.hyper
    /\ dga_detector.model.params = dd.model.params
    /\ \A i \in 1..Len(gdf) :
         predict(dga_detector.model, <<gdf[i].domain>>).out
           = predict(dd.model, <<gdf[i].domain>>).out

\* C3's case: the load succeeded although an older checkpoint with other
\* parameters lay in the directory.
C3_Witness ==
  /\ pc = "split"
  /\ dga_detector.model # NoModel
  /\ \E p \in Paths : fs[p] = StaleCheckpoint /\ p # model_filepath
  /\ dd.model.params # StaleCheckpoint.params

\* C4: while no training step runs, two predict calls on the same input
\* return the same classes, whatever predict calls lie between them.
C4_PredictRepeatable ==
  pc = "infer" =>
    \A i, j \in 1..Len(pred_results) :
      ChunkDomains(i) = ChunkDomains(j) => pred_results[i] = pred_results[j]

\* C4's case: three predict calls, the first and third on the same input and
\* the second on another.
C4_Witness ==
  /\ pc = "infer"
  /\ Len(pred_results) = 3
  /\ ChunkDomains(1) = ChunkDomains(3)
  /\ ChunkDomains(1) # ChunkDomains(2)

TrainEvents == SelectSeq(events, LAMBDA e : e.kind \in {"batch", "eval"})

\* The mini-batches 1..nb of an epoch, then its evaluation pass.
EpochEvents(e, nb) == [i \in 1..(nb + 1) |-> IF i <= nb THEN Ev("batch", e, i)
                                                       ELSE Ev("eval", e, 0)]

RECURSIVE ExpectedTrainEvents(_, _)
ExpectedTrainEvents(e, nb) ==
  IF e = 0 THEN <<>> ELSE ExpectedTrainEvents(e - 1, nb) \o EpochEvents(e, nb)

IsPrefix(s, t) == Len(s) <= Len(t) /\ SubSeq(t, 1, Len(s)) = s

\* C5: train_model with epoch count E runs the mini-batches of each epoch
\* one after the other, then that epoch's evaluation pass once, then the
\* next epoch; after E epochs it returns.
C5_EpochsInOrder ==
  gdf # <<>> =>
    LET exp == ExpectedTrainEvents(epochs,
                                   NumChunks(NTrain(Len(gdf)), batch_size))
    IN  /\ IsPrefix(TrainEvents, exp)
        /\ pc \in {"train_batch", "train_eval"} => Len(TrainEvents) < Len(exp)
        /\ (pc = "save" \/ HasEvent("save_checkpoint")) => TrainEvents = exp

\* C5's case: train_model returned after two epochs of two mini-batches.
C5_Witness ==
  /\ pc = "save"
  /\ epochs = 2
  /\ NumChunks(NTrain(Len(gdf)), batch_size) = 2
  /\ Len(epoch_log) = 2

BadCheckpointError(file) ==
  CASE file.kind = "absent"  -> "FileNotFoundError"
    [] file.kind = "corrupt" -> "DeserializationError"
    [] file.kind = "ckpt" /\ (\/ file.hyper.char_vocab # CHAR_VOCAB
                              \/ file.hyper.n_domain_type # N_DOMAIN_TYPE)
                             -> "HyperparameterMismatch"
    [] OTHER -> "none"

\* C6: when the file load_checkpoint reads is missing, corrupt or of
\* hyperparameters that do not fit the vocabulary and class count, the run
\* ends with that error, the detector holds no model, and nothing runs
\* after the load.
C6_LoadFailsClosed ==
  (HasEvent("load_checkpoint") /\ BadCheckpointError(fs[model_filepath]) # "none") =>
    /\ pc = "aborted"
    /\ abort_cause = BadCheckpointError(fs[model_filepath])
    /\ dga_detector.model = NoModel
    /\ LastEvent.kind = "load_checkpoint"

\* C6's case: the load met a checkpoint of another vocabulary and class
\* count.
C6_Witness ==
  /\ HasEvent("load_checkpoint")
  /\ fs[model_filepath] = ForeignCheckpoint
  /\ abort_cause = "HyperparameterMismatch"

IsFailure(e) == e.kind \in {"batch_fail", "predict_fail"}

\* C9: a mini-batch that fails is the last thing the run does: it is not
\* tried again, it is not skipped, and no batch, epoch or cell runs after
\* it.
C9_FailureEndsRun ==
  \A k \in 1..Len(events) :
    IsFailure(events[k]) => (k = Len(events) /\ pc = "aborted")

\* C9's case: the first chunk of an inference loop of several chunks failed.
C9_Witness ==
  /\ pc = "aborted"
  /\ events # <<>>
  /\ LastEvent = Ev("predict_fail", 1, 0)
  /\ NumTestChunks > 1

\* C10: the model a detector holds (parameters and hyperparameters) changes
\* only in a training mini-batch: the evaluation pass, save_checkpoint,
\* predict, get_unwrapped_model and the export leave it as it is.
C10_OnlyTrainingChangesModel ==
  [][/\ (dd.model # NoModel /\ dd'.model # dd.model) =>
          (pc = "train_batch" /\ events'[Len(events')].kind = "batch")
     /\ dga_detector.model # NoModel => dga_detector'.model = dga_detector.model]_vars

\* C10's case: the whole notebook ran, and the exported weights are those
\* of the trained detector.
C10_Witness ==
  /\ pc = "done"
  /\ HasEvent("batch") /\ HasEvent("eval") /\ HasEvent("predict")
  /\ onnx.kind = "onnx"
  /\ onnx.params = dd.model.params
  /\ model_to_export = dga_detector.model


(***************************************************************************)
(* The inference loop over the chunks of the test set.                     *)
(***************************************************************************)
TestChunks == [k \in 1..NumTestChunks |-> get_chunk(test_df, batch_size, k)]

\* The loop has ended and both lists have been concatenated.
Scored == HasEvent("score") /\ pc # "aborted"

\* What row i of the test set is: its domain's class under the loaded
\* model, and its label.
PredOfTestRow(i) == Classify(dga_detector.model, gdf[test_df[i]].domain)

TrueOfTestRow(i) == gdf[test_df[i]].type

\* C11: the chunks are non-empty, of at most BATCH_SIZE rows, and put one
\* after the other they are the test set, row for row; while the loop runs,
\* entry k of pred_results and of true_results holds one value for each row
\* of chunk k, in the chunk's order; after the loop both lists are as long
\* as the test set and position i of each belongs to test row i, whether or
\* not BATCH_SIZE divides the size of the test set.
C11_ResultsAlignedWithTestSet ==
  /\ pc = "infer" =>
       /\ Concatenate(TestChunks) = test_df
       /\ \A k \in 1..NumTestChunks :
            Len(TestChunks[k]) >= 1 /\ Len(TestChunks[k]) <= batch_size
       /\ Len(pred_results) = chunk_i - 1
       /\ Len(true_results) = chunk_i - 1
       /\ \A k \in 1..(chunk_i - 1) :
            LET first == (k - 1) * batch_size
            IN  /\ Len(pred_results[k]) = Len(TestChunks[k])
                /\ Len(true_results[k]) = Len(TestChunks[k])
                /\ \A j \in 1..Len(TestChunks[k]) :
                     /\ TestChunks[k][j] = test_df[first + j]
                     /\ pred_results[k][j] = PredOfTestRow(first + j)
                     /\ true_results[k][j] = TrueOfTestRow(first + j)
  /\ Scored =>
       /\ Len(pred_results) = Len(test_df)
       /\ Len(true_results) = Len(test_df)
       /\ \A i \in 1..Len(test_df) :
            /\ pred_results[i] = PredOfTestRow(i)
            /\ true_results[i] = TrueOfTestRow(i)

\* A test set of three rows scored in chunks of two: the last chunk is
\* short, and the rows do not all have the same label.
C11_Witness ==
  /\ Scored
  /\ Len(test_df) = 3 /\ batch_size = 2
  /\ Len(pred_results) = 3
  /\ \E i, j \in 1..3 : TrueOfTestRow(i) # TrueOfTestRow(j)

(***************************************************************************)
(* The split train_model works on.                                         *)
(***************************************************************************)
InTrainModel == pc \in {"train_batch", "train_eval"}

SplitIsPartition ==
  /\ Range(train_ids) \cap Range(test_ids) = {}
  /\ Range(train_ids) \cup Range(test_ids) = 1..Len(gdf)
  /\ Len(train_ids) + Len(test_ids) = Len(gdf)
  /\ Len(train_ids) = NTrain(Len(gdf))

\* C12: while train_model runs, its train and test sets are disjoint, make
\* up the whole dataset, and the train set has the size the fraction gives;
\* the mini-batches have trained on train rows only and the evaluation
\* passes have scored test rows only, so no row was both trained on and
\* evaluated on; and no step of train_model changes either set.
C12_SplitIsFixedPartition ==
  /\ [](/\ InTrainModel =>
            /\ SplitIsPartition
            /\ trained_on \subseteq Range(train_ids)
            /\ evaluated_on \subseteq Range(test_ids)
        /\ trained_on \cap evaluated_on = {})
  /\ [][InTrainModel /\ InTrainModel' =>
          train_ids' = train_ids /\ test_ids' = test_ids]_vars

\* train_model has returned after two epochs, each with its mini-batches
\* and its evaluation pass.
C12_Witness ==
  /\ pc = "save"
  /\ epochs = 2 /\ Len(epoch_log) = 2
  /\ trained_on # {} /\ evaluated_on # {}
  /\ trained_on \cup evaluated_on = 1..Len(gdf)

\* C13: once the inference cell has made its own split, no row of its test
\* set is a row that train_model trained on.
C13_TestSetUnseenInTraining ==
  HasEvent("split") => Range(test_df) \cap trained_on = {}

=============================================================================
